---- MODULE Spec2Model ----
(***************************************************************************)
(* Model of public/script.js: the chat widget's submit listener, its       *)
(* appendMessage helper and the formatGeminiResponse formatter.            *)
(*                                                                         *)
(* A text is a sequence of pieces.  Texts that the formatter processes are *)
(* sequences of one-character strings; the fixed texts of the script are   *)
(* single pieces, since no regular expression of the script looks inside   *)
(* them.                                                                   *)
(***************************************************************************)
EXTENDS Integers, Sequences, FiniteSets, TLC

-----------------------------------------------------------------------------
(* Bounds *)

\* Largest number of accepted submissions in one behaviour.
MaxSubs == 2

\* Largest number of lines of a reply text given to the formatter on its own.
MaxLines == 3

-----------------------------------------------------------------------------
(* String helpers: what String.prototype.trim / replace do on the texts    *)

NL == "\n"

\* Characters String.prototype.trim removes (those of the model's alphabet).
WhiteSpace == {" ", NL}

RECURSIVE TrimLeft(_)
TrimLeft(s) ==
  IF s = <<>> THEN <<>>
  ELSE IF Head(s) \in WhiteSpace THEN TrimLeft(Tail(s)) ELSE s

RECURSIVE TrimRight(_)
TrimRight(s) ==
  IF s = <<>> THEN <<>>
  ELSE IF s[Len(s)] \in WhiteSpace THEN TrimRight(SubSeq(s, 1, Len(s) - 1)) ELSE s

\* Variant: trimStart() in place of trim().
TrimStartOnly(s) == TrimLeft(s)

\* input.value.trim()
Trim(s) == TrimRight(TrimLeft(s))

\* TRUE iff pat occurs in s starting at position i.
MatchAt(s, pat, i) ==
  /\ i >= 1
  /\ i + Len(pat) - 1 <= Len(s)
  /\ SubSeq(s, i, i + Len(pat) - 1) = pat

\* Positions at which pat occurs in s.
Occurrences(s, pat) == {i \in 1..Len(s) : MatchAt(s, pat, i)}

Min(S) == CHOOSE x \in S : \A y \in S : x <= y
Max(S) == CHOOSE x \in S : \A y \in S : x >= y

\* s.replace(/pat/g, rep) for a literal, non-empty pattern: leftmost
\* non-overlapping occurrences, scanning from position i; the text up to the
\* next occurrence is copied.
RECURSIVE ReplaceFrom(_, _, _, _)
ReplaceFrom(s, pat, rep, i) ==
  LET next == {m \in Occurrences(s, pat) : m >= i}
  IN  IF next = {} THEN SubSeq(s, i, Len(s))
      ELSE SubSeq(s, i, Min(next) - 1) \o rep
             \o ReplaceFrom(s, pat, rep, Min(next) + Len(pat))

ReplaceAll(s, pat, rep) == ReplaceFrom(s, pat, rep, 1)

-----------------------------------------------------------------------------
(* formatGeminiResponse *)

LT == <<"&", "l", "t", ";">>
GT == <<"&", "g", "t", ";">>
StrongOpen == <<"<", "s", "t", "r", "o", "n", "g", ">">>
StrongClose == <<"<", "/", "s", "t", "r", "o", "n", "g", ">">>
LiOpen == <<"<", "l", "i", ">">>
LiClose == <<"<", "/", "l", "i", ">">>
UlOpen == <<"<", "u", "l", ">">>
UlClose == <<"<", "/", "u", "l", ">">>
Br == <<"<", "b", "r", ">">>
Stars == <<"*", "*">>

\* Variant: the ampersand is escaped as well, after the angle brackets.
EscapeHtmlAndAmp(text) ==
  ReplaceAll(ReplaceAll(ReplaceAll(text, <<"<">>, LT), <<">">>, GT),
             <<"&">>, <<"&", "a", "m", "p", ";">>)

\* Variant: only the opening angle bracket is escaped.
EscapeLtOnly(text) == ReplaceAll(text, <<"<">>, LT)

\* text.replace(/</g, '&lt;').replace(/>/g, '&gt;')
EscapeHtml(text) == ReplaceAll(ReplaceAll(text, <<"<">>, LT), <<">">>, GT)

\* Where the lazy group of /\*\*(.*?)\*\*/ started at i ends: the positions j
\* of a closing ** such that the group s[i+2..j-1] holds no line terminator.
BoldClosers(s, i) ==
  {j \in (i + 2)..Len(s) :
     /\ MatchAt(s, Stars, j)
     /\ \A k \in (i + 2)..(j - 1) : s[k] # NL}

\* html.replace(/\*\*(.*?)\*\*/g, '<strong>$1</strong>'), scanning from i:
\* the leftmost position at which the pattern matches, its shortest match,
\* then on from the end of the match.
RECURSIVE BoldFrom(_, _)
BoldFrom(s, i) ==
  LET next == {m \in Occurrences(s, Stars) : m >= i /\ BoldClosers(s, m) # {}}
  IN  IF next = {} THEN SubSeq(s, i, Len(s))
      ELSE LET m == Min(next)
               j == Min(BoldClosers(s, m))
           IN  SubSeq(s, i, m - 1)
                 \o StrongOpen \o SubSeq(s, m + 2, j - 1) \o StrongClose
                 \o BoldFrom(s, j + 2)

\* Variant: the group is greedy, /\*\*(.*)\*\*/g.
RECURSIVE GreedyBoldFrom(_, _)
GreedyBoldFrom(s, i) ==
  LET next == {m \in Occurrences(s, Stars) : m >= i /\ BoldClosers(s, m) # {}}
  IN  IF next = {} THEN SubSeq(s, i, Len(s))
      ELSE LET m == Min(next)
               j == Max(BoldClosers(s, m))
           IN  SubSeq(s, i, m - 1)
                 \o StrongOpen \o SubSeq(s, m + 2, j - 1) \o StrongClose
                 \o GreedyBoldFrom(s, j + 2)

ReplaceBoldGreedy(s) == GreedyBoldFrom(s, 1)

ReplaceBold(s) == BoldFrom(s, 1)

\* End of the line that holds position i: the position before the next line
\* terminator, or the end of the text.
LineEnd(s, i) ==
  LET nls == {k \in i..Len(s) : s[k] = NL}
  IN  IF nls = {} THEN Len(s) ELSE Min(nls) - 1

\* ^ under the m flag: start of the text or just after a line terminator.
AtLineStart(s, i) == i = 1 \/ s[i - 1] = NL

\* html.replace(/^\* (.*$)/gm, '<li>$1</li>'), scanning from i: the next
\* line that begins with "* ", its rest up to the end of the line, then on
\* from the end of the line.
RECURSIVE ListItemsFrom(_, _)
ListItemsFrom(s, i) ==
  LET next == {m \in Occurrences(s, <<"*", " ">>) : m >= i /\ AtLineStart(s, m)}
  IN  IF next = {} THEN SubSeq(s, i, Len(s))
      ELSE LET m == Min(next)
               e == LineEnd(s, m)
           IN  SubSeq(s, i, m - 1)
                 \o LiOpen \o SubSeq(s, m + 2, e) \o LiClose
                 \o ListItemsFrom(s, e + 1)

ReplaceListItems(s) == ListItemsFrom(s, 1)

\* html.replace(/(<li>.*<\/li>)/gs, '<ul>$1</ul>'): under the s flag the
\* greedy .* runs from the first <li> to the last </li> of the whole text, so
\* there is at most one match.
WrapList(s) ==
  LET opens == Occurrences(s, LiOpen)
  IN  IF opens = {} THEN s
      ELSE LET f == Min(opens)
               closes == {j \in Occurrences(s, LiClose) : j >= f + Len(LiOpen)}
           IN  IF closes = {} THEN s
               ELSE LET l == Max(closes) + Len(LiClose) - 1
                    IN  SubSeq(s, 1, f - 1) \o UlOpen \o SubSeq(s, f, l)
                          \o UlClose \o SubSeq(s, l + 1, Len(s))

\* Variant: the g flag is missing, /\n/.
ReplaceFirstNewline(s) ==
  LET nls == Occurrences(s, <<NL>>)
  IN  IF nls = {} THEN s
      ELSE SubSeq(s, 1, Min(nls) - 1) \o Br \o SubSeq(s, Min(nls) + 1, Len(s))

\* html.replace(/\n/g, '<br>')
ReplaceNewlines(s) == ReplaceAll(s, <<NL>>, Br)

\* html.replace(/<br><ul>/g, '<ul>')
CleanBefore(s) == ReplaceAll(s, Br \o UlOpen, UlOpen)

\* html.replace(/<\/ul><br>/g, '</ul>')
CleanAfter(s) == ReplaceAll(s, UlClose \o Br, UlClose)

\* html.replace(/<br><ul>/g, '<ul>') then html.replace(/<\/ul><br>/g, '</ul>')
CleanBr(s) == CleanAfter(CleanBefore(s))

\* Variant: the bold step is missing.
FormatWithoutBold(text) ==
  CleanBr(ReplaceNewlines(WrapList(ReplaceListItems(EscapeHtml(text)))))

formatGeminiResponse(text) ==
  CleanBr(ReplaceNewlines(WrapList(ReplaceListItems(ReplaceBold(EscapeHtml(text))))))

-----------------------------------------------------------------------------
(* Fixed texts of the script *)

ThinkingText == <<"Gemini sedang berpikir...">>
NoResponseText == <<"Maaf, tidak ada respon yang diterima.">>
ErrorPrefix == <<"Gagal mendapatkan respon dari server: ">>
StatusPrefix == <<"Server responded with status ">>

-----------------------------------------------------------------------------
(* Inputs of the environment: what the user types and what the network     *)
(* and the backend answer.                                                 *)

\* Values the user leaves in the input field before pressing submit.
InputValues ==
  { <<>>,
    <<" ", NL>>,
    <<" ", "a", NL>>,
    <<"<", "b", ">">> }

\* HTTP statuses of a response.
Statuses == {200, 404, 500}

\* response.ok
Ok(status) == status >= 200 /\ status <= 299

\* error.message of a rejected fetch() and of a rejected response.json().
TransportMessage == <<"Failed to fetch">>
ParseMessage == <<"Unexpected token < in JSON at position 0">>

HiThere == <<"H", "i", " ", "*", "*", "t", "h", "e", "r", "e", "*", "*">>
TwoItems == <<"*", " ", "a", NL, "*", " ", "b">>
Overloaded == <<"overloaded">>
Starred == <<"*", "*", "e", "*", "*">>

\* Values of the result field of a parsed body.
Results == {<<>>, HiThere, TwoItems}
\* Values of the error field of a parsed body.
Errors == {<<>>, Overloaded, Starred}

\* formatGeminiResponse(data.result) for the results of the model.
FormattedResult == [r \in Results |-> formatGeminiResponse(r)]

\* A parsed JSON body: null, or an object some of whose fields are present.
JsonNull == [null |-> TRUE, has |-> {}, result |-> <<>>, error |-> <<>>]
JsonObject(has, result, error) ==
  [null |-> FALSE, has |-> has, result |-> result, error |-> error]
JsonValues ==
  {JsonNull, JsonObject({}, <<>>, <<>>)}
    \cup {JsonObject({"result"}, r, <<>>) : r \in Results}
    \cup {JsonObject({"error"}, <<>>, e) : e \in Errors}

\* How a promise settles.
Rejected(message) == [state |-> "rejected", message |-> message]
Fulfilled(value) == [state |-> "fulfilled", value |-> value]

\* The Response object fetch() resolves with; NoResponse before that.
Response(status) == [ok |-> Ok(status), status |-> status]
NoResponse == [ok |-> FALSE, status |-> 0]

\* Outcomes of fetch(): the transport fails or the response head arrives.
FetchOutcomes ==
  {Rejected(TransportMessage)} \cup {Fulfilled(Response(st)) : st \in Statuses}
\* Outcomes of response.json(): the body does not parse, or it does.
JsonOutcomes ==
  {Rejected(ParseMessage)} \cup {Fulfilled(v) : v \in JsonValues}

-----------------------------------------------------------------------------
(* State *)

VARIABLES
  inputValue,             \* input.value
  chatBox,                \* children of the chat box, in document order
  writes,                 \* per child: assignments to its content after creation
  pc,                     \* per accepted submission: where its listener call is
  userMessage,            \* per accepted submission: its userMessage constant
  thinkingMessageElement, \* per accepted submission: index of its placeholder
  response,               \* per accepted submission: its response constant
  requests,               \* POST requests issued, in order
  consoleErrors,          \* per accepted submission: console.error records
  unhandled,              \* submissions whose listener call rejected
  submitResult,           \* how the listener left the latest submit event
  text,                   \* formatGeminiResponse on its own: its parameter
  html,                   \* formatGeminiResponse on its own: its local html
  step                    \* formatGeminiResponse on its own: its next statement

\* The state of the page and of the listener calls.
pageVars == <<inputValue, chatBox, writes, pc, userMessage, thinkingMessageElement,
              response, requests, consoleErrors, unhandled, submitResult>>

\* The state of a call of the formatter that is followed statement by statement.
formatVars == <<text, html, step>>

vars == <<inputValue, chatBox, writes, pc, userMessage, thinkingMessageElement,
          response, requests, consoleErrors, unhandled, submitResult,
          text, html, step>>

Subs == 1..Len(pc)

\* The page after the script has run: nothing typed, nothing submitted.
PageInit ==
  /\ inputValue = <<>>
  /\ chatBox = <<>>
  /\ writes = <<>>
  /\ pc = <<>>
  /\ userMessage = <<>>
  /\ thinkingMessageElement = <<>>
  /\ response = <<>>
  /\ requests = <<>>
  /\ consoleErrors = <<>>
  /\ unhandled = {}
  /\ submitResult = "none"

Init ==
  /\ PageInit
  /\ text = <<>>
  /\ html = <<>>
  /\ step = "idle"

-----------------------------------------------------------------------------
(* appendMessage and the writes of the listener *)

\* A child of the chat box: how its content was assigned (innerHTML parses
\* the text as markup, textContent does not).
Message(sender, content, mode) ==
  [sender |-> sender, content |-> content, mode |-> mode]

\* Variant: the new element is inserted before the first child.
PrependMessage(box, sender, htmlContent) ==
  <<Message(sender, htmlContent, "innerHTML")>> \o box

\* appendMessage(sender, htmlContent): the chat box after the call.
appendMessage(box, sender, htmlContent) ==
  Append(box, Message(sender, htmlContent, "innerHTML"))

\* Variant: the continuation assigns to chatBox.lastElementChild.
TargetLastChild(i) == Len(chatBox)

\* The element a continuation of submission i assigns to.
TargetElement(i) == thinkingMessageElement[i]

\* Variant: the placeholder is removed and a new element is appended.
ReplaceElement(i, content, mode) ==
  LET k == TargetElement(i) IN
  /\ chatBox' = SubSeq(chatBox, 1, k - 1) \o SubSeq(chatBox, k + 1, Len(chatBox))
                   \o <<Message("bot", content, mode)>>
  /\ writes' = SubSeq(writes, 1, k - 1) \o SubSeq(writes, k + 1, Len(writes))
                   \o <<writes[k] + 1>>

\* thinkingMessageElement.innerHTML = content / .textContent = content
SetContent(i, content, mode) ==
  /\ chatBox' = [chatBox EXCEPT ![TargetElement(i)] =
                    Message(@.sender, content, mode)]
  /\ writes' = [writes EXCEPT ![TargetElement(i)] = @ + 1]

\* The listener call of submission i returns after its finally block.
Return(i) ==
  /\ pc' = [pc EXCEPT ![i] = "done"]
  /\ response' = [response EXCEPT ![i] = NoResponse]
  /\ UNCHANGED unhandled

\* Variant: the catch block shows the prefix without error.message.
CatchBlockNoDescription(i, message) ==
  /\ consoleErrors' = [consoleErrors EXCEPT ![i] = @ + 1]
  /\ SetContent(i, ErrorPrefix, "textContent")
  /\ Return(i)

\* Variant: try/finally without a catch block; the error leaves the listener.
CatchBlockMissing(i, message) ==
  /\ pc' = [pc EXCEPT ![i] = "done"]
  /\ response' = [response EXCEPT ![i] = NoResponse]
  /\ unhandled' = unhandled \cup {i}
  /\ UNCHANGED <<chatBox, writes, consoleErrors>>

\* Variant: the catch block shows the error in a new entry, appended with
\* appendMessage, and leaves the placeholder as it is.
CatchBlockAppends(i, message) ==
  /\ consoleErrors' = [consoleErrors EXCEPT ![i] = @ + 1]
  /\ chatBox' = appendMessage(chatBox, "bot", ErrorPrefix \o message)
  /\ writes' = Append(writes, 1)
  /\ Return(i)

\* The catch block followed by the finally block.
CatchBlock(i, message) ==
  /\ consoleErrors' = [consoleErrors EXCEPT ![i] = @ + 1]
  /\ SetContent(i, ErrorPrefix \o message, "textContent")
  /\ Return(i)

-----------------------------------------------------------------------------
(* The user types *)

TypeInput(v) ==
  /\ v # inputValue
  /\ inputValue' = v
  /\ UNCHANGED <<chatBox, writes, pc, userMessage, thinkingMessageElement,
                 response, requests, consoleErrors, unhandled, submitResult>>
  /\ UNCHANGED formatVars

-----------------------------------------------------------------------------
(* The submit listener up to its first await *)

\* Variant: the body is built from input.value, which was cleared before.
RequestFromClearedInput(message) ==
  [url |-> "/api/chat", method |-> "POST", contentType |-> "application/json",
   body |-> [message |-> <<[role |-> "user", content |-> <<>>]>>]]

\* JSON.stringify({message: [{role: 'user', content: userMessage}]}) sent by
\* fetch('/api/chat', {method: 'POST', headers: {...}, body: ...}).
Request(message) ==
  [url |-> "/api/chat", method |-> "POST", contentType |-> "application/json",
   body |-> [message |-> <<[role |-> "user", content |-> message]>>]]

\* Variant: the guard is missing.
RejectsNothing(message) == FALSE

\* The guard of the listener: !userMessage
Rejects(message) == message = <<>>

Submit ==
  LET message == Trim(inputValue) IN
  /\ UNCHANGED formatVars
  /\ IF Rejects(message)
     THEN /\ submitResult' = "returned"
          /\ UNCHANGED <<inputValue, chatBox, writes, pc, userMessage,
                         thinkingMessageElement, response, requests,
                         consoleErrors, unhandled>>
     ELSE /\ Len(pc) < MaxSubs
          /\ chatBox' = appendMessage(appendMessage(chatBox, "user", message),
                                      "bot", ThinkingText)
          /\ writes' = writes \o <<0, 0>>
          /\ inputValue' = <<>>
          /\ thinkingMessageElement' = Append(thinkingMessageElement, Len(chatBox) + 2)
          /\ userMessage' = Append(userMessage, message)
          /\ requests' = Append(requests, Request(message))
          /\ response' = Append(response, NoResponse)
          /\ consoleErrors' = Append(consoleErrors, 0)
          /\ pc' = Append(pc, "awaitFetch")
          /\ submitResult' = "sent"
          /\ UNCHANGED unhandled

-----------------------------------------------------------------------------
(* The continuations of the listener.  A continuation runs as a microtask  *)
(* of the task that settles the awaited promise, so that no other event    *)
(* is handled between the settlement and the continuation: each is one     *)
(* step.                                                                   *)

\* Variant: the placeholder shows the status as soon as the response has
\* arrived, before the body is read.
ResumeAfterFetchShowsStatus(i, outcome) ==
  /\ pc[i] = "awaitFetch"
  /\ UNCHANGED <<inputValue, userMessage, thinkingMessageElement, requests,
                 submitResult>>
  /\ UNCHANGED formatVars
  /\ IF outcome.state = "rejected"
     THEN CatchBlock(i, outcome.message)
     ELSE /\ response' = [response EXCEPT ![i] = outcome.value]
          /\ pc' = [pc EXCEPT ![i] =
                      IF outcome.value.ok THEN "awaitJson" ELSE "awaitErrorJson"]
          /\ SetContent(i, StatusPrefix \o <<ToString(outcome.value.status)>>,
                        "textContent")
          /\ UNCHANGED <<consoleErrors, unhandled>>

\* The promise of fetch() settles and the listener resumes after
\* `await fetch(...)`: a rejection goes to the catch block; a response starts
\* reading the body, on the !response.ok path or on the success path.
ResumeAfterFetch(i, outcome) ==
  /\ pc[i] = "awaitFetch"
  /\ UNCHANGED <<inputValue, userMessage, thinkingMessageElement, requests,
                 submitResult>>
  /\ UNCHANGED formatVars
  /\ IF outcome.state = "rejected"
     THEN CatchBlock(i, outcome.message)
     ELSE /\ response' = [response EXCEPT ![i] = outcome.value]
          /\ pc' = [pc EXCEPT ![i] =
                      IF outcome.value.ok THEN "awaitJson" ELSE "awaitErrorJson"]
          /\ UNCHANGED <<chatBox, writes, consoleErrors, unhandled>>

\* await response.json().catch(() => null)
ErrorData(outcome) ==
  IF outcome.state = "rejected" THEN JsonNull ELSE outcome.value

\* Variant: the body of the failure response is not looked at.
ErrorMessageIgnoresBody(errorData, status) == StatusPrefix \o <<ToString(status)>>

\* errorData?.error || `Server responded with status ${response.status}`
ErrorMessage(errorData, status) ==
  IF ~errorData.null /\ "error" \in errorData.has /\ errorData.error # <<>>
  THEN errorData.error
  ELSE StatusPrefix \o <<ToString(status)>>

\* The promise of response.json() settles on the !response.ok path and the
\* listener resumes: throw new Error(errorMessage), caught by the catch block.
ResumeAfterErrorJson(i, outcome) ==
  /\ pc[i] = "awaitErrorJson"
  /\ CatchBlock(i, ErrorMessage(ErrorData(outcome), response[i].status))
  /\ UNCHANGED <<inputValue, userMessage, thinkingMessageElement, requests,
                 submitResult>>
  /\ UNCHANGED formatVars

\* Variant: the test is data && data.result !== undefined.
HasResultField(data) == ~data.null /\ "result" \in data.has

\* data && data.result
HasResult(data) == ~data.null /\ "result" \in data.has /\ data.result # <<>>

\* The promise of response.json() settles on the success path and the
\* listener resumes after `const data = await response.json()`.
ResumeAfterJson(i, outcome) ==
  /\ pc[i] = "awaitJson"
  /\ UNCHANGED <<inputValue, userMessage, thinkingMessageElement, requests,
                 submitResult>>
  /\ UNCHANGED formatVars
  /\ IF outcome.state = "rejected"
     THEN CatchBlock(i, outcome.message)
     ELSE /\ IF HasResult(outcome.value)
             THEN SetContent(i, FormattedResult[outcome.value.result], "innerHTML")
             ELSE SetContent(i, NoResponseText, "textContent")
          /\ Return(i)
          /\ UNCHANGED consoleErrors

-----------------------------------------------------------------------------
(* Specifications *)

Next ==
  \/ \E v \in InputValues : TypeInput(v)
  \/ Submit
  \/ \E i \in Subs : \E o \in FetchOutcomes : ResumeAfterFetch(i, o)
  \/ \E i \in Subs : \E o \in JsonOutcomes : ResumeAfterErrorJson(i, o)
  \/ \E i \in Subs : \E o \in JsonOutcomes : ResumeAfterJson(i, o)

Spec == Init /\ [][Next]_vars

\* Every request that was issued completes, and the event loop runs the
\* continuation of a settled promise.
Fairness ==
  \A i \in 1..MaxSubs :
    /\ WF_vars(i \in Subs /\ \E o \in FetchOutcomes : ResumeAfterFetch(i, o))
    /\ WF_vars(i \in Subs /\ \E o \in JsonOutcomes : ResumeAfterErrorJson(i, o))
    /\ WF_vars(i \in Subs /\ \E o \in JsonOutcomes : ResumeAfterJson(i, o))

\* What the user types in the behaviours checked for progress: the text of a
\* submission has no part in how its reply is handled.
LiveInputValues == {<<>>, <<" ", "a", NL>>}

LiveNext ==
  \/ \E v \in LiveInputValues : TypeInput(v)
  \/ Submit
  \/ \E i \in Subs : \E o \in FetchOutcomes : ResumeAfterFetch(i, o)
  \/ \E i \in Subs : \E o \in JsonOutcomes : ResumeAfterErrorJson(i, o)
  \/ \E i \in Subs : \E o \in JsonOutcomes : ResumeAfterJson(i, o)

LiveSpec == Init /\ [][LiveNext]_vars /\ Fairness

-----------------------------------------------------------------------------
(* formatGeminiResponse on its own, one statement of its body per step *)

\* Lines a reply text is made of.
Lines ==
  { <<>>,
    <<"a">>,
    <<"<", "b", ">">>,
    <<"&">>,
    <<"a", " ", "&", "b">>,
    <<"*", "a">>,
    <<"*", " ", "a">>,
    <<"*", " ", "*", "*", "b", "*", "*">>,
    <<"*", "*", "b", "o", "l", "d", "*", "*">>,
    <<"*", "*", "a", "*", "*", " ", "*", "*", "b", "*", "*">>,
    <<"*", "*", "a">>,
    <<"*", "*", "*", "a", "*", "*">> }

\* The lines ls with a line terminator between each two.
RECURSIVE JoinLines(_)
JoinLines(ls) ==
  IF Len(ls) = 1 THEN ls[1]
  ELSE ls[1] \o <<NL>> \o JoinLines(Tail(ls))

\* Reply texts of 1..MaxLines lines.
ReplyTexts ==
  {JoinLines(ls) : ls \in UNION {[1..n -> Lines] : n \in 1..MaxLines}}

\* formatGeminiResponse(text) is called on a page on which nothing happens.
FormatInit ==
  /\ PageInit
  /\ text \in ReplyTexts
  /\ html = <<>>
  /\ step = "escape"

\* The statement at `from` assigns `value` to html; `to` is the next one.
Statement(from, value, to) ==
  /\ step = from
  /\ html' = value
  /\ step' = to
  /\ UNCHANGED text
  /\ UNCHANGED pageVars

Escape == Statement("escape", EscapeHtml(text), "bold")
Bold == Statement("bold", ReplaceBold(html), "items")
ListItems == Statement("items", ReplaceListItems(html), "wrap")
Wrap == Statement("wrap", WrapList(html), "newlines")
Newlines == Statement("newlines", ReplaceNewlines(html), "cleanBefore")
CleanBrBefore == Statement("cleanBefore", CleanBefore(html), "cleanAfter")
CleanBrAfter == Statement("cleanAfter", CleanAfter(html), "return")

FormatNext ==
  \/ Escape
  \/ Bold
  \/ ListItems
  \/ Wrap
  \/ Newlines
  \/ CleanBrBefore
  \/ CleanBrAfter

FormatSpec == FormatInit /\ [][FormatNext]_vars

\* The call has reached `return html`.
Returned == step = "return"

-----------------------------------------------------------------------------
(* Vocabulary of the properties *)

\* The states of a submission in the handler's state machine.
Sent(i) == i \in Subs /\ pc[i] \in {"awaitFetch", "awaitErrorJson", "awaitJson"}
Done(i) == i \in Subs /\ pc[i] = "done"

\* The placeholder entry of submission i.
Placeholder(i) == chatBox[thinkingMessageElement[i]]

\* Entry k is a placeholder that no reply has replaced yet.
IsThinking(k) ==
  /\ chatBox[k].sender = "bot"
  /\ chatBox[k].content = ThinkingText
  /\ writes[k] = 0

\* Entry k is not the same after the step.
Changed(k) == k > Len(chatBox') \/ chatBox'[k] # chatBox[k]

\* The continuation of submission i returns in the step.
Finishes(i) == pc[i] # "done" /\ pc'[i] = "done"

IsBlank(s) == \A k \in 1..Len(s) : s[k] \in {" ", NL}

\* t is s without its leading and trailing white space.
IsTrimOf(t, s) ==
  \E a \in 1..(Len(s) + 1) : \E b \in 0..Len(s) :
    /\ t = SubSeq(s, a, b)
    /\ IsBlank(SubSeq(s, 1, a - 1))
    /\ IsBlank(SubSeq(s, b + 1, Len(s)))
    /\ t # <<>> => ~IsBlank(<<t[1]>>) /\ ~IsBlank(<<t[Len(t)]>>)

-----------------------------------------------------------------------------
(* C1 *)

\* C1: with several submissions in flight and replies arriving in any order,
\* an entry of the transcript changes only in the step in which the reply of
\* the submission that created it as its placeholder is handled, and only
\* while it still is a placeholder: no reply changes another submission's
\* placeholder, a user message or a final entry.
C1_ReplyChangesOwnPlaceholderOnly ==
  [][\A k \in 1..Len(chatBox) :
       Changed(k) =>
         \E i \in Subs :
           /\ Finishes(i)
           /\ thinkingMessageElement[i] = k
           /\ IsThinking(k)
           /\ \A j \in Subs \ {i} : pc'[j] = pc[j]]_vars

\* Two submissions were in flight and the reply of the second came first.
C1_Witness ==
  /\ Len(pc) >= 2
  /\ Sent(1)
  /\ Done(2)
  /\ IsThinking(thinkingMessageElement[1])
  /\ writes[thinkingMessageElement[2]] = 1

-----------------------------------------------------------------------------
(* C2 *)

\* C2: every accepted submission whose request completes reaches Done with
\* its placeholder replaced by a non-empty final message, whatever the
\* outcome, and its error does not leave the listener.
C2_EverySubmissionReachesDone ==
  \A i \in 1..MaxSubs :
    Sent(i) ~> (/\ Done(i)
                /\ i \notin unhandled
                /\ writes[thinkingMessageElement[i]] = 1
                /\ Placeholder(i).content # <<>>)

\* A submission reached Done through the catch block.
C2_Witness ==
  \E i \in Subs :
    /\ Done(i)
    /\ consoleErrors[i] = 1
    /\ i \notin unhandled
    /\ writes[thinkingMessageElement[i]] = 1

-----------------------------------------------------------------------------
(* C3 *)

\* C3: while the input field is empty or holds only white space, no step
\* adds a transcript entry, issues a request or starts a submission, and the
\* submit event leaves the input field and every entry as they are.
C3_BlankSubmitHasNoEffect ==
  [][IsBlank(inputValue) =>
       /\ Len(chatBox') = Len(chatBox)
       /\ requests' = requests
       /\ Len(pc') = Len(pc)
       /\ submitResult' # submitResult =>
            /\ submitResult' = "returned"
            /\ inputValue' = inputValue
            /\ chatBox' = chatBox
            /\ pc' = pc]_vars

\* The listener returned early on an input of white space.
C3_Witness ==
  /\ submitResult = "returned"
  /\ inputValue = <<" ", NL>>

-----------------------------------------------------------------------------
(* C4 *)

\* C4: the transcript grows only by a submission, and then in one step in
\* which no reply is handled: exactly two entries are added at the end, a
\* user entry holding the trimmed input and directly after it the bot
\* placeholder with the fixed text, and the input field becomes empty.
C4_SubmitAppendsPair ==
  [][(Len(chatBox') # Len(chatBox) \/ Len(pc') # Len(pc)
        \/ (submitResult' = "sent" /\ submitResult # "sent")) =>
       LET n == Len(chatBox) IN
       /\ ~IsBlank(inputValue)
       /\ Len(pc') = Len(pc) + 1
       /\ Len(chatBox') = n + 2
       /\ SubSeq(chatBox', 1, n) = chatBox
       /\ chatBox'[n + 1].sender = "user"
       /\ IsTrimOf(chatBox'[n + 1].content, inputValue)
       /\ chatBox'[n + 2].sender = "bot"
       /\ chatBox'[n + 2].content = ThinkingText
       /\ thinkingMessageElement'[Len(pc')] = n + 2
       /\ inputValue' = <<>>
       /\ \A i \in Subs : pc'[i] = pc[i]]_vars

\* A submission of " a\n" was accepted while another one was in flight.
C4_Witness ==
  /\ submitResult = "sent"
  /\ inputValue = <<>>
  /\ Len(chatBox) = 4
  /\ chatBox[3] = [sender |-> "user", content |-> <<"a">>, mode |-> "innerHTML"]
  /\ chatBox[4].content = ThinkingText
  /\ pc[2] = "awaitFetch"

-----------------------------------------------------------------------------
(* C5 *)

\* C5: in every reachable state there are as many POST requests as accepted
\* submissions (user entries of the transcript), and the i-th request carries
\* the text of the i-th submission as its single user-role message; a failure
\* issues no second request.
C5_OneRequestPerSubmission ==
  /\ Len(requests) = Len(pc)
  /\ Len(requests) = Cardinality({k \in 1..Len(chatBox) : chatBox[k].sender = "user"})
  /\ \A i \in Subs :
       /\ requests[i].method = "POST"
       /\ requests[i].url = "/api/chat"
       /\ Len(requests[i].body.message) = 1
       /\ requests[i].body.message[1].role = "user"
       /\ requests[i].body.message[1].content
            = chatBox[thinkingMessageElement[i] - 1].content
       /\ chatBox[thinkingMessageElement[i] - 1].sender = "user"

\* Two submissions with different texts, one of which failed.
C5_Witness ==
  /\ Len(requests) = 2
  /\ requests[1].body.message[1].content # requests[2].body.message[1].content
  /\ \E i \in Subs : Done(i) /\ consoleErrors[i] = 1

-----------------------------------------------------------------------------
(* C6 *)

\* C6 as stated: once appended, an entry never changes and is never removed.
C6_EntriesNeverChange ==
  [][\A k \in 1..Len(chatBox) : ~Changed(k)]_vars

\* C6 (amended): no entry is ever removed, no entry ever changes its sender,
\* a user entry never changes its content, and a bot entry changes its
\* content only once, while it still is the placeholder; a final entry never
\* changes.
C6_OnlyPlaceholderIsReplacedOnce ==
  [][\A k \in 1..Len(chatBox) :
       /\ k <= Len(chatBox')
       /\ chatBox'[k].sender = chatBox[k].sender
       /\ chatBox'[k] # chatBox[k] =>
            /\ IsThinking(k)
            /\ writes'[k] = 1
       /\ writes'[k] # writes[k] => IsThinking(k)]_vars

\* Both placeholders were replaced, one of them while the other was final.
C6_Witness ==
  /\ Len(pc) = 2
  /\ Done(1)
  /\ Done(2)
  /\ writes = <<0, 1, 0, 1>>
  /\ ~IsThinking(2)
  /\ ~IsThinking(4)

-----------------------------------------------------------------------------
(* C7 *)

\* C7: the transcript never gets shorter; entries are added only at the end
\* and only by a submission, never by a reply; existing entries keep their
\* positions; and the user/placeholder pairs stand in the order of
\* submission whatever the order of the replies.
C7_AppendOnlyInSubmissionOrder ==
  [][/\ Len(chatBox') >= Len(chatBox)
     /\ \A k \in 1..Len(chatBox) :
          /\ chatBox'[k].sender = chatBox[k].sender
          /\ chatBox[k].sender = "user" => chatBox'[k] = chatBox[k]
     /\ Len(chatBox') > Len(chatBox) =>
          /\ Len(pc') = Len(pc) + 1
          /\ \A i \in Subs : pc'[i] = pc[i]
     /\ (\E i \in Subs : pc'[i] # pc[i]) => Len(chatBox') = Len(chatBox)
     /\ \A i \in 1..Len(pc') :
          /\ thinkingMessageElement'[i] = 2 * i
          /\ chatBox'[2 * i - 1].sender = "user"
          /\ chatBox'[2 * i - 1].content = userMessage'[i]
          /\ chatBox'[2 * i].sender = "bot"]_vars

\* Two submissions with different texts; the second was answered first.
C7_Witness ==
  /\ Len(chatBox) = 4
  /\ pc[1] = "awaitFetch"
  /\ Done(2)
  /\ chatBox[1].content # chatBox[3].content
  /\ ~IsThinking(4)

-----------------------------------------------------------------------------
(* C8 *)

\* The text after the fixed prefix that C8 expects for a failure response
\* with body outcome o, when every error field counts (all = TRUE) or only a
\* non-empty one (all = FALSE).
C8_Expected(o, status, all) ==
  IF /\ o.state = "fulfilled"
     /\ ~o.value.null
     /\ "error" \in o.value.has
     /\ (all \/ o.value.error # <<>>)
  THEN o.value.error
  ELSE StatusPrefix \o <<ToString(status)>>

\* C8 as stated: on a non-success status the placeholder shows the text of
\* the body's error field whenever the body is JSON with an error field, and
\* the generic status message otherwise.
C8_ErrorFieldShown ==
  [][\A i \in Subs : \A o \in JsonOutcomes :
       ResumeAfterErrorJson(i, o) =>
         chatBox'[thinkingMessageElement[i]].content
           = ErrorPrefix \o C8_Expected(o, response[i].status, TRUE)]_vars

\* C8 (amended): on a non-success status the placeholder shows, after the
\* handler's fixed prefix, the text of the body's error field if the body is
\* JSON with a non-empty error field, and the generic message embedding the
\* numeric status if the error field is missing or empty or the body is not
\* parseable JSON.
C8_NonEmptyErrorFieldShown ==
  [][\A i \in Subs : \A o \in JsonOutcomes :
       ResumeAfterErrorJson(i, o) =>
         /\ Done(i)'
         /\ chatBox'[thinkingMessageElement[i]]
              = Message("bot",
                        ErrorPrefix \o C8_Expected(o, response[i].status, FALSE),
                        "textContent")]_vars

\* One failure response showed its error field, another the generic message.
C8_Witness ==
  \E i, j \in Subs :
    /\ Done(i)
    /\ Done(j)
    /\ Placeholder(i).content = ErrorPrefix \o Overloaded
    /\ Placeholder(j).content = ErrorPrefix \o StatusPrefix \o <<"404">>

-----------------------------------------------------------------------------
(* C9 *)

\* What C9 expects of the step that handles a failure with description m.
C9_Shows(i, m) ==
  /\ Done(i)'
  /\ i \notin unhandled'
  /\ chatBox'[thinkingMessageElement[i]]
       = Message("bot", ErrorPrefix \o m, "textContent")
  /\ Len(chatBox') = Len(chatBox)
  /\ \A k \in 1..Len(chatBox) :
       k # thinkingMessageElement[i] => chatBox'[k] = chatBox[k]

\* C9: when fetch fails in transport, or a success response has a body that
\* does not parse as JSON, the placeholder is replaced by a message made of
\* the failure's description, the failure does not leave the listener, and
\* no other entry changes.
C9_FailureDescriptionShown ==
  [][\A i \in Subs :
       /\ \A o \in FetchOutcomes :
            (o.state = "rejected" /\ ResumeAfterFetch(i, o)) => C9_Shows(i, o.message)
       /\ \A o \in JsonOutcomes :
            (o.state = "rejected" /\ ResumeAfterJson(i, o)) => C9_Shows(i, o.message)]_vars

\* One submission failed in transport, another on an unparseable body.
C9_Witness ==
  \E i, j \in Subs :
    /\ Done(i)
    /\ Done(j)
    /\ Placeholder(i).content = ErrorPrefix \o TransportMessage
    /\ Placeholder(j).content = ErrorPrefix \o ParseMessage
    /\ unhandled = {}

-----------------------------------------------------------------------------
(* C10 *)

\* "Hi <strong>there</strong>"
C10_HiThereHtml ==
  <<"H", "i", " ", "<", "s", "t", "r", "o", "n", "g", ">",
    "t", "h", "e", "r", "e", "<", "/", "s", "t", "r", "o", "n", "g", ">">>

\* The body outcome o is a parsed object with a non-empty result field.
C10_NonEmptyResult(o) ==
  /\ o.state = "fulfilled"
  /\ ~o.value.null
  /\ "result" \in o.value.has
  /\ o.value.result # <<>>

\* The contents the listener assigns without the formatter.
C10_PlainTexts ==
  {NoResponseText}
    \cup {ErrorPrefix \o m : m \in {TransportMessage, ParseMessage}}
    \cup {ErrorPrefix \o e : e \in Errors \ {<<>>}}
    \cup {ErrorPrefix \o StatusPrefix \o <<ToString(st)>> : st \in Statuses}

\* The step leaves in the placeholder of i an unformatted text, assigned as text.
C10_Plain(i) ==
  /\ Done(i)'
  /\ chatBox'[thinkingMessageElement[i]].mode = "textContent"
  /\ chatBox'[thinkingMessageElement[i]].content \in C10_PlainTexts

\* C10: a success response with a non-empty result makes the placeholder's
\* content the formatter's output for the result, assigned as markup ("Hi
\* **there**" gives "Hi <strong>there</strong>"); on every other path the
\* placeholder gets an unformatted text, assigned as text.
C10_FormattedResultShown ==
  [][\A i \in Subs :
       /\ \A o \in JsonOutcomes :
            (C10_NonEmptyResult(o) /\ Finishes(i) /\ ResumeAfterJson(i, o)) =>
              /\ Done(i)'
              /\ chatBox'[thinkingMessageElement[i]]
                   = Message("bot", formatGeminiResponse(o.value.result), "innerHTML")
              /\ o.value.result = HiThere =>
                   chatBox'[thinkingMessageElement[i]].content = C10_HiThereHtml
       /\ \A o \in JsonOutcomes :
            (~C10_NonEmptyResult(o) /\ ResumeAfterJson(i, o)) => C10_Plain(i)
       /\ \A o \in JsonOutcomes : ResumeAfterErrorJson(i, o) => C10_Plain(i)
       /\ \A o \in FetchOutcomes :
            (Finishes(i) /\ ResumeAfterFetch(i, o)) => C10_Plain(i)]_vars

\* A placeholder shows the formatted "Hi **there**", and a failure response's
\* error text with asterisks is shown as it came.
C10_Witness ==
  \E i, j \in Subs :
    /\ Done(i)
    /\ Placeholder(i) = Message("bot", C10_HiThereHtml, "innerHTML")
    /\ Done(j)
    /\ Placeholder(j) = Message("bot", ErrorPrefix \o Starred, "textContent")

-----------------------------------------------------------------------------
(* C11 *)

\* The body outcome o is a parsed body without a result or with an empty one.
C11_NoResult(o) ==
  /\ o.state = "fulfilled"
  /\ \/ o.value.null
     \/ "result" \notin o.value.has
     \/ o.value.result = <<>>

\* C11: a success response whose body has no result field or an empty result
\* makes the placeholder the fixed "no response received" text, and this is
\* not the error outcome: the text has no error prefix and nothing is
\* recorded on the console.
C11_NoResultShowsFixedText ==
  [][\A i \in Subs : \A o \in JsonOutcomes :
       (C11_NoResult(o) /\ ResumeAfterJson(i, o)) =>
         /\ Done(i)'
         /\ chatBox'[thinkingMessageElement[i]]
              = Message("bot", NoResponseText, "textContent")
         /\ NoResponseText[1] # ErrorPrefix[1]
         /\ consoleErrors'[i] = 0
         /\ i \notin unhandled']_vars

\* One success response had no result; another submission ended in an error.
C11_Witness ==
  \E i, j \in Subs :
    /\ Done(i)
    /\ Placeholder(i) = Message("bot", NoResponseText, "textContent")
    /\ consoleErrors[i] = 0
    /\ Done(j)
    /\ consoleErrors[j] = 1
    /\ Placeholder(j).content[1] = ErrorPrefix[1]

-----------------------------------------------------------------------------
(* Vocabulary of the properties of the formatter *)

\* The tags the formatter emits.
FormatterTags ==
  {StrongOpen, StrongClose, LiOpen, LiClose, UlOpen, UlClose, Br}

\* Number of positions of s that hold the character c.
Count(s, c) == Cardinality({p \in 1..Len(s) : s[p] = c})

\* Every angle bracket of s is the first or the last character of a tag of
\* the formatter that stands there.
OnlyFormatterTags(s) ==
  \A p \in 1..Len(s) :
    /\ s[p] = "<" => \E t \in FormatterTags : MatchAt(s, t, p)
    /\ s[p] = ">" => \E t \in FormatterTags : MatchAt(s, t, p - Len(t) + 1)

-----------------------------------------------------------------------------
(* C12 *)

\* The two runs of list lines of "* a", "a", "* a", each in its own list
\* container, the line between them outside.
C12_TwoRuns == <<"*", " ", "a", NL, "a", NL, "*", " ", "a">>
C12_TwoContainers ==
  UlOpen \o LiOpen \o <<"a">> \o LiClose \o UlClose
    \o <<"a">>
    \o UlOpen \o LiOpen \o <<"a">> \o LiClose \o UlClose

\* C12: every maximal run of consecutive list lines gets its own single list
\* container: the output has as many containers as the text has runs, and
\* two runs with a plain line between them give two containers with that
\* line outside of both.
C12_OneContainerPerRun ==
  Returned =>
    /\ Cardinality(Occurrences(html, UlOpen))
         = Cardinality({p \in 1..Len(text) :
              /\ AtLineStart(text, p)
              /\ MatchAt(text, <<"*", " ">>, p)
              /\ \/ p = 1
                 \/ \E q \in 1..(p - 1) :
                      /\ AtLineStart(text, q)
                      /\ LineEnd(text, q) = p - 2
                      /\ ~MatchAt(text, <<"*", " ">>, q)})
    /\ text = C12_TwoRuns => html = C12_TwoContainers

-----------------------------------------------------------------------------
(* C13 *)

\* C13: the output has no angle bracket outside the tags the formatter
\* emits, and every angle bracket of the text is there as its entity (the
\* texts hold no entity of their own).
C13_NoTagFromInput ==
  Returned =>
    /\ OnlyFormatterTags(html)
    /\ Cardinality(Occurrences(html, LT)) = Count(text, "<")
    /\ Cardinality(Occurrences(html, GT)) = Count(text, ">")

\* A text with angle brackets and with markdown was formatted.
C13_Witness ==
  /\ Returned
  /\ Count(text, "<") > 0
  /\ Count(text, ">") > 0
  /\ Occurrences(html, StrongOpen) # {}
  /\ Occurrences(html, UlOpen) # {}

-----------------------------------------------------------------------------
(* C14 *)

\* Every line of s is a list line, and there is one at least.
C14_OnlyListLines(s) ==
  /\ s # <<>>
  /\ \A p \in 1..(Len(s) + 1) :
       AtLineStart(s, p) => MatchAt(s, <<"*", " ">>, p)

\* The items of the list lines of s from position i on, one after the other,
\* each holding the rest of its line with its angle brackets escaped and
\* its bold pairs wrapped.
RECURSIVE C14_Items(_, _)
C14_Items(s, i) ==
  IF i > Len(s) THEN <<>>
  ELSE LET e == LineEnd(s, i)
       IN  LiOpen \o ReplaceBold(EscapeHtml(SubSeq(s, i + 2, e))) \o LiClose
             \o C14_Items(s, e + 2)

-----------------------------------------------------------------------------
(* C15 *)

\* What one character of a text without markdown becomes.
C15_Char(c) ==
  IF c = "<" THEN LT
  ELSE IF c = ">" THEN GT
  ELSE IF c = NL THEN Br
  ELSE <<c>>

RECURSIVE C15_Expected(_)
C15_Expected(s) ==
  IF s = <<>> THEN <<>> ELSE C15_Char(Head(s)) \o C15_Expected(Tail(s))

\* C15: for a text without an asterisk the output is the text with every
\* angle bracket replaced by its entity and every newline by one line-break
\* marker, and nothing else; "a\na" gives "a<br>a" and the empty text the
\* empty output.
C15_PlainTextOnlyEscaped ==
  (Returned /\ Count(text, "*") = 0) =>
    /\ html = C15_Expected(text)
    /\ text = <<"a", NL, "a">> => html = <<"a", "<", "b", "r", ">", "a">>
    /\ text = <<>> => html = <<>>

\* A text of three lines with angle brackets and no asterisk was formatted.
C15_Witness ==
  /\ Returned
  /\ Count(text, "*") = 0
  /\ Count(text, NL) = 2
  /\ Count(text, "<") > 0
  /\ Cardinality(Occurrences(html, Br)) = 2

-----------------------------------------------------------------------------
(* C16 *)

\* The text has no angle bracket and no asterisk.
C16_Plain(s) == Count(s, "<") = 0 /\ Count(s, ">") = 0 /\ Count(s, "*") = 0

\* C16 as stated: on every text without angle bracket and asterisk,
\* formatting the output again changes nothing, and the output is the text.
C16_IdempotentOnPlainText ==
  (Returned /\ C16_Plain(text)) =>
    /\ formatGeminiResponse(html) = html
    /\ html = text

\* C16 (amended): on every text without angle bracket, asterisk and newline
\* the output is the text, and formatting it again changes nothing; a text
\* without angle bracket and asterisk that has newlines gives the text with
\* a line-break marker for each newline, and formatting that output again
\* changes it.
C16_IdempotentOnOneLinePlainText ==
  (Returned /\ C16_Plain(text)) =>
    /\ html = ReplaceAll(text, <<NL>>, Br)
    /\ Count(text, NL) = 0 =>
         /\ html = text
         /\ formatGeminiResponse(html) = html
    /\ Count(text, NL) > 0 => formatGeminiResponse(html) # html

\* A plain one-line text with an ampersand was formatted.
C16_Witness ==
  /\ Returned
  /\ text = <<"a", " ", "&", "b">>
  /\ html = text

-----------------------------------------------------------------------------
(* C17 *)

\* The first ** at or after position i of s, if it stands in the line that
\* ends at e; 0 if there is none.
C17_Delimiter(s, i, e) ==
  LET ds == {m \in i..(e - 1) : s[m] = "*" /\ s[m + 1] = "*"}
  IN  IF ds = {} THEN 0 ELSE Min(ds)

\* s from position i on, with the ** of each line paired from left to
\* right, each pair and what it encloses replaced by the enclosed text in
\* bold, and a ** without a partner in its line left as it is.
RECURSIVE C17_Paired(_, _)
C17_Paired(s, i) ==
  IF i > Len(s) THEN <<>>
  ELSE LET e == LineEnd(s, i)
           open == C17_Delimiter(s, i, e)
           close == IF open = 0 THEN 0 ELSE C17_Delimiter(s, open + 2, e)
       IN  IF close = 0
           THEN SubSeq(s, i, Min({e + 1, Len(s)})) \o C17_Paired(s, e + 2)
           ELSE SubSeq(s, i, open - 1)
                  \o StrongOpen \o SubSeq(s, open + 2, close - 1) \o StrongClose
                  \o C17_Paired(s, close + 2)

C17_Bold == <<"*", "*", "b", "o", "l", "d", "*", "*">>
C17_BoldHtml == StrongOpen \o <<"b", "o", "l", "d">> \o StrongClose

\* C17: the bold statement replaces each pair of ** lying on one line,
\* paired from left to right with the nearest closing **, by the enclosed
\* text in bold, and leaves a ** without a closing ** literally; the bold
\* elements are all in the output, and "**bold**" gives bold "bold" without
\* an asterisk.
C17_BoldPairsReplaced ==
  [][/\ (step = "bold" /\ step' = "items") => html' = C17_Paired(html, 1)
     /\ step' = "return" =>
          /\ Cardinality(Occurrences(html', StrongOpen))
               = Cardinality(Occurrences(C17_Paired(text', 1), StrongOpen))
          /\ text' = C17_Bold => html' = C17_BoldHtml /\ Count(html', "*") = 0]_vars

\* A line with two pairs and a line with an unclosed ** were formatted.
C17_Witness ==
  /\ Returned
  /\ text = <<"*", "*", "a", "*", "*", " ", "*", "*", "b", "*", "*", NL, "*", "*", "a">>
  /\ Cardinality(Occurrences(html, StrongOpen)) = 2
  /\ Count(html, "*") = 2

-----------------------------------------------------------------------------
(* C18 *)

\* The response of submission i has arrived and its placeholder is not
\* replaced yet: the listener waits for the body.
C18_ReadsBody(i) == i \in Subs /\ pc[i] \in {"awaitJson", "awaitErrorJson"}

\* No other submission is made and no other submission's listener moves in
\* the step.
C18_OthersStay(i) ==
  /\ Len(pc') = Len(pc)
  /\ \A j \in Subs \ {i} : pc'[j] = pc[j]

\* C18 as stated: a submission has one suspension point, the wait for the
\* response, so that the end of that wait is the replacement of the
\* placeholder, and no submission and no reply of another submission is
\* handled between the arrival of the response and the replacement.
C18_OneSuspensionPoint ==
  [][\A i \in Subs :
       /\ (pc[i] = "awaitFetch" /\ pc'[i] # "awaitFetch") => pc'[i] = "done"
       /\ C18_ReadsBody(i) => C18_OthersStay(i)]_vars

\* C18 (amended): a submission has two suspension points at most, the wait
\* for the response and then the wait for the body of the response; the
\* first ends in the second unless the request failed, the second ends in
\* the replacement; the placeholder is written in the step that ends the
\* last wait and in no other; a step moves one listener only, and while a
\* listener waits, for the response or for the body, other submissions and
\* other replies can be handled.
C18_TwoSuspensionPoints ==
  [][\A i \in Subs :
       /\ pc[i] = "awaitFetch" =>
            pc'[i] \in {"awaitFetch", "awaitJson", "awaitErrorJson", "done"}
       /\ (pc[i] = "awaitFetch" /\ pc'[i] = "done") =>
            consoleErrors'[i] = consoleErrors[i] + 1
       /\ C18_ReadsBody(i) => pc'[i] \in {pc[i], "done"}
       /\ pc[i] = "done" => pc'[i] = "done"
       /\ pc'[i] # pc[i] => C18_OthersStay(i)
       /\ Finishes(i) <=>
            writes'[thinkingMessageElement[i]]
              # writes[thinkingMessageElement[i]]
       /\ Finishes(i) <=> Changed(thinkingMessageElement[i])]_vars

\* The first submission still waits for the body of its response, and a
\* second one was made and its reply handled meanwhile.
C18_Witness ==
  /\ C18_ReadsBody(1)
  /\ IsThinking(thinkingMessageElement[1])
  /\ Done(2)
  /\ ~IsThinking(thinkingMessageElement[2])

-----------------------------------------------------------------------------
(* C19 *)

\* C19: no entry of the transcript that the page parses as markup holds an
\* element other than the bold, list, list-item and line-break elements of
\* the formatter.
C19_OnlyRestrictedHtml ==
  \A k \in 1..Len(chatBox) :
    chatBox[k].mode = "innerHTML" => OnlyFormatterTags(chatBox[k].content)

-----------------------------------------------------------------------------
(* C20 *)

\* Entry m is the final content of a placeholder by the outcome: a
\* formatted result, the 'no response' text, a server error text, a
\* transport or parse error text.
C20_IsFormattedResult(m) ==
  /\ m.mode = "innerHTML"
  /\ \E r \in Results \ {<<>>} : m.content = FormattedResult[r]
C20_IsNoResponse(m) ==
  /\ m.mode = "textContent"
  /\ m.content = NoResponseText
C20_IsServerError(m) ==
  /\ m.mode = "textContent"
  /\ \/ \E e \in Errors \ {<<>>} : m.content = ErrorPrefix \o e
     \/ \E st \in Statuses :
          m.content = ErrorPrefix \o StatusPrefix \o <<ToString(st)>>
C20_IsTransportOrParseError(m) ==
  /\ m.mode = "textContent"
  /\ \E e \in {TransportMessage, ParseMessage} : m.content = ErrorPrefix \o e

\* The outcomes that entry m is the final content of.
C20_OutcomesOf(m) ==
  {o \in 1..4 :
     /\ m.sender = "bot"
     /\ \/ o = 1 /\ C20_IsFormattedResult(m)
        \/ o = 2 /\ C20_IsNoResponse(m)
        \/ o = 3 /\ C20_IsServerError(m)
        \/ o = 4 /\ C20_IsTransportOrParseError(m)}

\* C20: a placeholder is written exactly once, in the step in which its
\* submission reaches Done, with the content of exactly one of the four
\* outcomes, that of the path the listener took; Done is never left, and a
\* step that changes the transcript is a submission or the one write of a
\* submission that was not Done.
C20_DoneIsTerminalAndWrittenOnce ==
  /\ [](\A i \in Subs :
          /\ writes[thinkingMessageElement[i]] = IF Done(i) THEN 1 ELSE 0
          /\ writes[thinkingMessageElement[i] - 1] = 0
          /\ Done(i) <=> ~IsThinking(thinkingMessageElement[i])
          /\ Done(i) => Cardinality(C20_OutcomesOf(Placeholder(i))) = 1)
  /\ [][/\ \A i \in Subs :
             /\ Done(i) =>
                  /\ Done(i)'
                  /\ ~Changed(thinkingMessageElement[i])
                  /\ writes'[thinkingMessageElement[i]] = 1
             /\ (Finishes(i) /\ pc[i] = "awaitErrorJson") =>
                  C20_OutcomesOf(Placeholder(i)') = {3}
             /\ (Finishes(i) /\ pc[i] = "awaitFetch") =>
                  C20_OutcomesOf(Placeholder(i)') = {4}
             /\ (Finishes(i) /\ pc[i] = "awaitJson") =>
                  C20_OutcomesOf(Placeholder(i)') \in {{1}, {2}, {4}}
        /\ chatBox' # chatBox =>
             \/ /\ Len(chatBox') = Len(chatBox) + 2
                /\ SubSeq(chatBox', 1, Len(chatBox)) = chatBox
                /\ Len(pc') = Len(pc) + 1
             \/ /\ Len(chatBox') = Len(chatBox)
                /\ \E i \in Subs :
                     /\ Finishes(i)
                     /\ \A k \in 1..Len(chatBox) :
                          Changed(k) <=> k = thinkingMessageElement[i]]_vars

\* Two submissions are Done, one with a formatted result and one with a
\* server error, each placeholder written once.
C20_Witness ==
  /\ Done(1)
  /\ Done(2)
  /\ C20_OutcomesOf(Placeholder(1)) = {1}
  /\ C20_OutcomesOf(Placeholder(2)) = {3}
  /\ writes[thinkingMessageElement[1]] = 1
  /\ writes[thinkingMessageElement[2]] = 1

====
